---- MODULE Spec2Model ----
(***************************************************************************)
(* Backend of the social-cause platform (backend/server.js): the Express   *)
(* handlers over the four MongoDB collections, the two upstream fetchers   *)
(* (fetchTEDTalks, refreshNGOData) with their delete-then-insert replace,  *)
(* the refresh timers, the startup sequence and the Pusher publish.        *)
(*                                                                         *)
(* The process is a single-threaded event loop: an async handler runs      *)
(* without interruption from one await to the next, and handlers           *)
(* interleave only at awaits.  Every action below is one such segment: an  *)
(* awaited call settles (its effect on the store happens) and the handler  *)
(* runs on to its next await or to its response.  The one place where the  *)
(* effect and the continuation are kept apart is insertMany in the         *)
(* fetchers, whose continuation is the `return` that produces the          *)
(* response: other handlers' store operations can fall between the two.    *)
(***************************************************************************)
EXTENDS Integers, Sequences, FiniteSets, TLC

\* ------------------------------------------------------------------ bounds
\* Largest createdAt stamp at which a new request or timer callback still
\* starts: caps the number of refreshes of one collection in a run.
MaxStamp == 2
\* Longest list of records an upstream API returns.
MaxFetched == 2
\* Largest `limit` query parameter a client sends.
MaxLimit == 1

\* ------------------------------------------------------- program constants
\* `limit = 20` in GET /api/content, `limit = 50` in GET /api/action-hub.
DefaultContentLimit == 20
DefaultActionHubLimit == 50
\* `limit = 100` in GET /api/map, `limit = 50` in GET /api/messages.
DefaultMapLimit == 100
DefaultMessagesLimit == 50

\* The two cached collections, by their collection names.
Types == {"tedTalks", "ngos"}

\* Task ids.  1 and 2 are the background invocations of the two fetchers:
\* first the call in startServer's Promise.allSettled, then the setInterval
\* callbacks (six hours apart, so one has ended before the next begins).
\* 3 is the HTTP request being handled; when it has been answered the next
\* request takes its place.
Background(ty) == IF ty = "tedTalks" THEN 1 ELSE 2
BackgroundIds == {1, 2}
ReqIds == {3}
TaskIds == BackgroundIds \cup ReqIds

VARIABLES
  phase,      \* the process: "connecting", "loading", "listening"; "exited"
              \* after process.exit, "crashed" when the runtime ended it
  indexes,    \* the collections whose index connectToMongoDB has created
  timers,     \* timers[ty]: the setInterval registrations of ty's fetcher
  conn,       \* the MongoClient: "none", "open", "closed"
  signal,     \* the termination signal received, or "none"
  populated,  \* history: populated[ty] once an insertMany into ty succeeded
  env,        \* process.env: NODE_ENV and ADMIN_API_KEY
  coll,       \* coll[ty]: the documents of tedTalks / ngos, in natural order
  clock,      \* clock[c]: the value the next `new Date()` for collection c takes
  messages,   \* the messages collection
  mapData,    \* the mapData collection
  published,  \* pusher.trigger calls: payload and outcome
  tasks,      \* tasks[t]: one async invocation (request, timer callback, startup call)
  auth,       \* the client's auth slice: user, loading, error
  dispatched  \* the action the auth reducer handled last

vars == <<phase, indexes, timers, conn, signal, populated, env, coll, clock, messages, mapData,
          published, tasks, auth, dispatched>>

\* ----------------------------------------------------------- pure helpers
Max(a, b) == IF a >= b THEN a ELSE b
Min(a, b) == IF a <= b THEN a ELSE b
Abs(n) == IF n < 0 THEN 0 - n ELSE n
Take(s, n) == SubSeq(s, 1, Min(Len(s), Max(n, 0)))
Range(s) == {s[i] : i \in DOMAIN s}

\* A field of a JavaScript object that may be absent.
Has(obj, f) == f \in DOMAIN obj

\* Array.prototype.slice(0, end): a negative end counts from the end of the
\* array, an end past the array stops at its length.
\* Variant: a response that is not truncated.
SliceAll(arr, end) == arr
Slice0(arr, end) ==
  IF end < 0 THEN Take(arr, Len(arr) + end) ELSE Take(arr, end)

\* cursor.limit(n) of the MongoDB driver: 0 is "no limit", a negative n is
\* treated as its absolute value.
CursorLimit(docs, n) == IF n = 0 THEN docs ELSE Take(docs, Abs(n))

\* cursor.sort({createdAt: -1}): newest first, documents with equal createdAt
\* in natural order.
RECURSIVE SortCreatedAtDesc(_)
SortCreatedAtDesc(docs) ==
  IF docs = <<>> THEN <<>>
  ELSE LET newest == CHOOSE m \in {docs[i].createdAt : i \in DOMAIN docs} :
                        \A j \in DOMAIN docs : docs[j].createdAt <= m
           IsNewest(d) == d.createdAt = newest
           IsOlder(d) == d.createdAt # newest
       IN SelectSeq(docs, IsNewest) \o SortCreatedAtDesc(SelectSeq(docs, IsOlder))

\* ------------------------------------------------------------ environment
\* process.env as the handlers read it.  ADMIN_API_KEY may be unset; a
\* variable that is unset reads as undefined.
Undefined == "undefined"
Get(obj, f) == IF Has(obj, f) THEN obj[f] ELSE Undefined
Envs ==
  { [NODE_ENV |-> "production", ADMIN_API_KEY |-> "secret"],
    [NODE_ENV |-> "production"],
    [NODE_ENV |-> "development", ADMIN_API_KEY |-> "secret"] }

\* ------------------------------------------------------ upstream and store
\* What an upstream API answers: a list of records, here their upstream ids
\* (the other fields travel with the id).
UpstreamResults == {[i \in 1 .. n |-> i] : n \in 0 .. MaxFetched}

\* response.data...map(talk => ({id, title, ..., createdAt: new Date()})):
\* the normalised records, all stamped with the time of the mapping.
Normalise(ids, now) == [i \in DOMAIN ids |-> [id |-> ids[i], createdAt |-> now]]

\* The title (name) of a record as the text index sees it: one keyword per
\* upstream id.  Ids start at 1, so the word 0 is a search term that matches
\* no title.
SearchWords == {0, 1}
TextMatches(doc, word) == doc.id = word

\* The constant `type` field the fetcher writes into every record.
TypeField(ty) == IF ty = "tedTalks" THEN "Video" ELSE "NGO"

\* The filter of GET /api/content: {$text: {$search}} when search is given.
ContentQuery(req, ty, doc) ==
  Has(req, "search") => TextMatches(doc, req.search)
\* The filter of GET /api/action-hub: $text when search is given, and
\* type equality when type is given.
ActionHubQuery(req, ty, doc) ==
  /\ Has(req, "search") => TextMatches(doc, req.search)
  /\ Has(req, "type") => TypeField(ty) = req.type
Query(req, ty, doc) ==
  IF ty = "tedTalks" THEN ContentQuery(req, ty, doc) ELSE ActionHubQuery(req, ty, doc)

DefaultLimit(ty) ==
  IF ty = "tedTalks" THEN DefaultContentLimit ELSE DefaultActionHubLimit
\* const { limit = 20 } = req.query
LimitOf(req, ty) == IF Has(req, "limit") THEN req.limit ELSE DefaultLimit(ty)

\* db.collection(ty).find(query).limit(parseInt(limit)).sort({createdAt: -1}).toArray()
Find(docs, req, ty) ==
  LET Matches(d) == Query(req, ty, d)
  IN CursorLimit(SortCreatedAtDesc(SelectSeq(docs, Matches)), LimitOf(req, ty))

\* deleteMany({}) and insertMany(docs) on a collection.
\* Variant: a fetcher that inserts without deleting first.
DeleteNone(docs) == docs
DeleteMany(docs) == <<>>
InsertMany(docs, batch) == docs \o batch
\* The driver rejects an empty batch ("Invalid Operation, no operations
\* specified" / "Batch cannot be empty") without touching the store.
InsertManyRejects(batch) == batch = <<>>

\* ------------------------------------------------------------------ tasks
\* kind: "serve" (GET /api/content, GET /api/action-hub), "refresh"
\* (POST /api/refresh/...), "timer" (a setInterval callback), "boot" (a call
\* of startServer's initial load), "sendMessage", "mapPost".
\* pc: the await the invocation is suspended at, or "done".
\* calls: the store / upstream / pusher calls the invocation has made.
\* fresh: the fetcher's local array (talks / ngos).
\* res: the HTTP response sent (status 0: none yet).
\* err: the error the invocation threw or caught ("none": no error).
\* left: the documents of the target collection at the moment the fetcher
\* returned (what the invocation leaves behind).
Idle == [pc |-> "idle"]
\* req.query / req.body / req.headers with nothing in it.
NoParams == <<>>
NoRes == [status |-> 0]
NewTask(kind, ty, req, pc, calls) ==
  [kind |-> kind, ty |-> ty, req |-> req, pc |-> pc, calls |-> calls,
   fresh |-> <<>>, res |-> NoRes, err |-> "none", left |-> <<>>]

IsRequest(task) ==
  task.kind \in {"serve", "refresh", "sendMessage", "mapPost", "getMap",
                 "getMessages", "health"}

\* The body a route's catch block sends.  GET /api/content adds err.message;
\* POST /api/send-message adds err.message and, in development, err.stack.
ErrorJson(kind, ty, e, nodeEnv) ==
  CASE kind = "serve" /\ ty = "tedTalks" ->
         [error |-> "Failed to fetch content", message |-> e]
    [] kind = "serve" /\ ty = "ngos" -> [error |-> "Failed to fetch NGOs"]
    [] kind = "refresh" /\ ty = "tedTalks" -> [error |-> "Failed to refresh TED Talks"]
    [] kind = "refresh" /\ ty = "ngos" -> [error |-> "Failed to refresh NGOs"]
    [] kind = "sendMessage" ->
         IF nodeEnv = "development"
         THEN [error |-> "Failed to send message", details |-> e, stack |-> e]
         ELSE [error |-> "Failed to send message", details |-> e]
    [] kind = "getMap" -> [error |-> "Failed to fetch map data"]
    [] kind = "getMessages" -> [error |-> "Failed to fetch messages"]
    [] OTHER -> [error |-> "Failed to save location"]

\* An error thrown inside an invocation: the fetcher's catch logs it and
\* throws it on; a route's catch answers 500; a timer callback or a startup
\* call has no response to send, the rejection stays with the caller
\* (setInterval, Promise.allSettled).  Nothing is retried.
\* Variant: a catch that answers 200 with an empty list.
CatchAndAnswerEmpty(task, e) ==
  [task EXCEPT !.pc = "done", !.err = e, !.res = [status |-> 200, json |-> <<>>]]
Catch(task, e) ==
  IF IsRequest(task)
  THEN [task EXCEPT !.pc = "done", !.err = e,
          !.res = [status |-> 500,
                   json |-> ErrorJson(task.kind, task.ty, e, env.NODE_ENV)]]
  ELSE [task EXCEPT !.pc = "done", !.err = e]

\* The caller's continuation once the fetcher has returned its array:
\* res.json(fresh.slice(0, limit)) in the GET routes, {success, count} in the
\* refresh routes, nothing for a timer callback or a startup call.
Returned(task, docs) ==
  CASE task.kind = "serve" ->
         [task EXCEPT !.pc = "done", !.left = docs,
            !.res = [status |-> 200,
                     json |-> Slice0(task.fresh, LimitOf(task.req, task.ty))]]
    [] task.kind = "refresh" ->
         [task EXCEPT !.pc = "done", !.left = docs,
            !.res = [status |-> 200,
                     json |-> [success |-> TRUE, count |-> Len(task.fresh)]]]
    [] OTHER -> [task EXCEPT !.pc = "done", !.left = docs]

\* ------------------------------------------------------- the auth slice
\* JavaScript's null, a value apart from every user object and every error.
Null == [null |-> TRUE]
\* const initialState = {user: null, loading: false, error: null}
initialState == [user |-> Null, loading |-> FALSE, error |-> Null]

\* `obj.f || fallback` where the fallback ('' or false) is the falsy value of
\* the field's type: an absent or falsy field gives the fallback.
OrElse(obj, f, fallback) == IF Has(obj, f) /\ obj[f] # fallback THEN obj[f] ELSE fallback

\* The user objects a caller passes to loginSuccess and setUser, with and
\* without the optional fields, and the errors passed to loginFailure.
UserPayloads ==
  {[uid |-> "u1", email |-> "a@x.org"],
   [uid |-> "u1", email |-> "a@x.org", displayName |-> "Al"],
   [uid |-> "u1", email |-> "a@x.org", displayName |-> "", emailVerified |-> TRUE],
   [uid |-> "u1", email |-> "a@x.org", photoURL |-> "a.png", emailVerified |-> FALSE]}
ErrorPayloads == {[message |-> "wrong-password"], [message |-> "network"]}

\* The reducers.
loginStart(state) == [state EXCEPT !.loading = TRUE, !.error = Null]
loginSuccess(state, payload) ==
  [user |-> [uid |-> Get(payload, "uid"),
             email |-> Get(payload, "email"),
             displayName |-> OrElse(payload, "displayName", ""),
             photoURL |-> OrElse(payload, "photoURL", ""),
             emailVerified |-> OrElse(payload, "emailVerified", FALSE)],
   loading |-> FALSE,
   error |-> Null]
\* Variant: a failure that records the error and leaves loading as it is.
loginFailureStillLoading(state, payload) == [state EXCEPT !.error = payload]
loginFailure(state, payload) == [state EXCEPT !.error = payload, !.loading = FALSE]
logout(state) == [state EXCEPT !.user = Null, !.loading = FALSE, !.error = Null]
setUser(state, payload) == [state EXCEPT !.user = payload]

\* authSlice.reducer: the store hands the action to the reducer of its type;
\* it starts from initialState with the store's own "@@INIT" action.
Reduce(state, action) ==
  CASE action.type = "loginStart" -> loginStart(state)
    [] action.type = "loginSuccess" -> loginSuccess(state, action.payload)
    [] action.type = "loginFailure" -> loginFailure(state, action.payload)
    [] action.type = "logout" -> logout(state)
    [] OTHER -> setUser(state, action.payload)

\* ------------------------------------------------------------------- Init
Init ==
  /\ phase = "connecting"
  /\ indexes = {}
  /\ timers = [ty \in Types |-> 0]
  /\ conn = "none"
  /\ signal = "none"
  /\ populated = [ty \in Types |-> FALSE]
  /\ env \in Envs
  /\ coll = [ty \in Types |-> <<>>]
  /\ clock = [c \in Types \cup {"messages", "mapData"} |-> 1]
  /\ messages = <<>>
  /\ mapData = <<>>
  /\ published = <<>>
  /\ tasks = [t \in TaskIds |-> Idle]
  /\ auth = initialState
  /\ dispatched = [type |-> "@@INIT"]

\* ---------------------------------------------------------------- startup
\* The process runs: process.exit has not been called and the runtime has
\* not ended it.
Alive == phase \in {"connecting", "loading", "listening"}

\* The four createIndex calls of connectToMongoDB, in their order.
IndexNames == <<"mapData", "tedTalks", "ngos", "messages">>
\* What can go wrong before the first createIndex.
StartupFaults == {"noUri", "connect"}
\* connectToMongoDB's catch: console.error and process.exit(1).
\* Variant: a catch that logs and lets startServer go on.
LogAndGoOn(err) == "loading"
ExitOnError(err) == "exited"

\* connectToMongoDB: a missing MONGODB_URI, a failed connect or a failed
\* createIndex (the created-th + 1) ends in process.exit(1).  Otherwise
\* startServer goes on to the initial load: both fetchers are called, each
\* runs to its axios.get.
ConnectToMongoDB ==
  /\ phase = "connecting"
  /\ \E fault \in StartupFaults \cup {"none"}, created \in 0 .. Len(IndexNames) :
       /\ fault # "none" => created = 0
       /\ indexes' = {IndexNames[i] : i \in 1 .. created}
       /\ conn' = IF fault = "none" THEN "open" ELSE "none"
       /\ phase' = IF fault = "none" /\ created = Len(IndexNames)
                   THEN "loading"
                   ELSE ExitOnError(fault)
       /\ tasks' = [t \in TaskIds |->
            IF t \in BackgroundIds /\ phase' = "loading"
            THEN NewTask("boot", CHOOSE ty \in Types : Background(ty) = t,
                         NoParams, "axios.get", <<"axios.get">>)
            ELSE tasks[t]]
  /\ UNCHANGED <<timers, signal, populated, env, auth, dispatched, coll, clock,
                 messages, mapData, published>>

\* await Promise.allSettled([fetchTEDTalks(), refreshNGOData()])
\* Variant: the initial load is not awaited.
NotAwaited(ts) == TRUE
\* Variant: a startup that goes on only when both calls succeeded.
AllFulfilled(ts) == \A t \in BackgroundIds : ts[t].pc = "done" /\ ts[t].err = "none"
AllSettled(ts) == \A t \in BackgroundIds : ts[t].pc = "done"
\* setInterval(fetcher, 6 * 60 * 60 * 1000)
SetInterval(registered, ty) == [registered EXCEPT ![ty] = @ + 1]

\* Promise.allSettled has settled: app.listen and the two setInterval calls.
\* The results of the two startup calls are dropped.
Listen ==
  /\ phase = "loading"
  /\ AllSettled(tasks)
  /\ phase' = "listening"
  /\ timers' = SetInterval(SetInterval(timers, "tedTalks"), "ngos")
  /\ tasks' = [t \in TaskIds |-> IF t \in BackgroundIds THEN [pc |-> "settled"] ELSE tasks[t]]
  /\ UNCHANGED <<indexes, conn, signal, populated, env, auth, dispatched, coll, clock,
                 messages, mapData, published>>

\* A request arrives: the server is listening and the request before it has
\* been answered.
Free(t) ==
  /\ phase = "listening"
  /\ t \in ReqIds
  /\ tasks[t].pc \in {"idle", "done"}
  /\ \A c \in DOMAIN clock : clock[c] <= MaxStamp

\* ------------------------------------------------ the cached-content routes
\* The query strings a client sends: search, type (action-hub only) and
\* limit, each optional; limit is a decimal integer.
LimitParams == {0 - 1} \cup (1 .. MaxLimit)
ContentQueries ==
  {NoParams} \cup {[search |-> w] : w \in SearchWords}
    \cup {[limit |-> n] : n \in LimitParams}
    \cup {[search |-> 0, limit |-> n] : n \in 1 .. MaxLimit}
ActionHubQueries ==
  {NoParams} \cup {[search |-> w] : w \in SearchWords}
    \cup {[type |-> x] : x \in {"NGO", "Shelter"}}
    \cup {[limit |-> n] : n \in LimitParams}
    \cup {[type |-> "Shelter", limit |-> n] : n \in 1 .. MaxLimit}
Queries(ty) == IF ty = "tedTalks" THEN ContentQueries ELSE ActionHubQueries

\* app.get('/api/content') and app.get('/api/action-hub') up to their first
\* await: the query is built and find() is issued.
GetCached(t, ty, req) ==
  /\ Free(t)
  /\ tasks' = [tasks EXCEPT ![t] = NewTask("serve", ty, req, "find", <<"find">>)]
  /\ UNCHANGED <<phase, indexes, timers, conn, signal, populated, env, auth, dispatched,
                 coll, clock, messages, mapData, published>>

\* find() settles.  A non-empty result is the response; an empty one calls
\* the fetcher, which runs to its axios.get.  A rejected find is caught.
FindSettles(t) ==
  /\ Alive
  /\ tasks[t].pc = "find"
  /\ tasks[t].kind = "serve"
  /\ \E ok \in BOOLEAN :
       LET task == tasks[t]
           docs == Find(coll[task.ty], task.req, task.ty)
       IN tasks' = [tasks EXCEPT ![t] =
            IF ~ok THEN Catch(task, "storage")
            ELSE IF Len(docs) = 0
            THEN [task EXCEPT !.pc = "axios.get",
                              !.calls = Append(@, "axios.get")]
            ELSE [task EXCEPT !.pc = "done",
                              !.res = [status |-> 200, json |-> docs]]]
  /\ UNCHANGED <<phase, indexes, timers, conn, signal, populated, env, auth, dispatched,
                 coll, clock, messages, mapData, published>>

\* ----------------------------------------------------- the refresh routes
\* The x-api-key header a client sends, if any.
RefreshHeaders == {NoParams, [x_api_key |-> "secret"], [x_api_key |-> "wrong"]}

\* process.env.NODE_ENV === 'production' &&
\*   req.headers['x-api-key'] !== process.env.ADMIN_API_KEY
Unauthorized(e, headers) ==
  /\ e.NODE_ENV = "production"
  /\ Get(headers, "x_api_key") # Get(e, "ADMIN_API_KEY")

\* app.post('/api/refresh/ted-talks') and app.post('/api/refresh/ngos') up to
\* the 403 or to the fetcher's axios.get.
PostRefresh(t, ty, headers) ==
  /\ Free(t)
  /\ tasks' = [tasks EXCEPT ![t] =
       IF Unauthorized(env, headers)
       THEN [NewTask("refresh", ty, headers, "done", <<>>) EXCEPT
               !.res = [status |-> 403, json |-> [error |-> "Unauthorized"]]]
       ELSE NewTask("refresh", ty, headers, "axios.get", <<"axios.get">>)]
  /\ UNCHANGED <<phase, indexes, timers, conn, signal, populated, env, auth, dispatched,
                 coll, clock, messages, mapData, published>>

\* A setInterval tick calls the fetcher.
TimerFires(ty) ==
  /\ phase = "listening"
  /\ timers[ty] > 0
  /\ tasks[Background(ty)].pc \in {"settled", "done"}
  /\ clock[ty] <= MaxStamp
  /\ tasks' = [tasks EXCEPT ![Background(ty)] =
       NewTask("timer", ty, NoParams, "axios.get", <<"axios.get">>)]
  /\ UNCHANGED <<phase, indexes, timers, conn, signal, populated, env, auth, dispatched,
                 coll, clock, messages, mapData, published>>

\* --------------------------------- the fetchers (fetchTEDTalks, refreshNGOData)
\* setInterval drops the promise its callback returns.  When the fetcher
\* throws, that promise rejects with no handler: a runtime that only warns
\* about unhandled rejections lets the process run on, one that throws on
\* them (the default from Node 15 on) ends the process.
UnhandledRejection(task) ==
  task.kind = "timer" /\ task.pc = "done" /\ task.err # "none"
AfterRejection(task) ==
  IF UnhandledRejection(task) THEN {phase, "crashed"} ELSE {phase}

\* The collection a fetcher deletes from and inserts into:
\* db.collection('tedTalks') in fetchTEDTalks, db.collection('ngos') in
\* refreshNGOData.
\* Variant: both fetchers written against the talks collection.
TalksCollection(ty) == "tedTalks"
CollectionOf(ty) == ty

\* axios.get settles.  On a response the records are mapped (one new Date()
\* for the batch) and deleteMany is issued; a failed call or an unusable
\* payload is thrown to the caller.
AxiosGetSettles(t) ==
  /\ Alive
  /\ tasks[t].pc = "axios.get"
  /\ LET task == tasks[t] IN
       \/ /\ tasks' = [tasks EXCEPT ![t] = Catch(task, "upstream")]
          /\ UNCHANGED clock
       \/ \E ids \in UpstreamResults :
            /\ tasks' = [tasks EXCEPT ![t] =
                 [task EXCEPT !.pc = "deleteMany",
                              !.fresh = Normalise(ids, clock[task.ty]),
                              !.calls = Append(@, "deleteMany")]]
            /\ clock' = [clock EXCEPT ![task.ty] = @ + 1]
  /\ phase' \in AfterRejection(tasks'[t])
  /\ UNCHANGED <<indexes, timers, conn, signal, populated, env, auth, dispatched, coll,
                 messages, mapData, published>>

\* deleteMany({}) settles and insertMany(fresh) is issued; the driver throws
\* on an empty batch.  A rejected deleteMany leaves the collection as it was.
DeleteManySettles(t) ==
  /\ Alive
  /\ tasks[t].pc = "deleteMany"
  /\ LET task == tasks[t]
         called == [task EXCEPT !.calls = Append(@, "insertMany")]
     IN
       \/ /\ tasks' = [tasks EXCEPT ![t] = Catch(task, "storage")]
          /\ UNCHANGED coll
       \/ /\ coll' = [coll EXCEPT ![CollectionOf(task.ty)] = DeleteMany(@)]
          /\ tasks' = [tasks EXCEPT ![t] =
               IF InsertManyRejects(task.fresh)
               THEN Catch(called, "emptyBatch")
               ELSE [called EXCEPT !.pc = "insertMany"]]
  /\ phase' \in AfterRejection(tasks'[t])
  /\ UNCHANGED <<indexes, timers, conn, signal, populated, env, auth, dispatched, clock,
                 messages, mapData, published>>

\* insertMany(fresh) takes effect in the store, or is rejected.
InsertManySettles(t) ==
  /\ Alive
  /\ tasks[t].pc = "insertMany"
  /\ LET task == tasks[t] IN
       \/ /\ tasks' = [tasks EXCEPT ![t] = Catch(task, "storage")]
          /\ UNCHANGED <<coll, populated>>
       \/ /\ coll' = [coll EXCEPT ![CollectionOf(task.ty)] = InsertMany(@, task.fresh)]
          /\ populated' = [populated EXCEPT ![task.ty] = TRUE]
          /\ tasks' = [tasks EXCEPT ![t] = [task EXCEPT !.pc = "return"]]
  /\ phase' \in AfterRejection(tasks'[t])
  /\ UNCHANGED <<indexes, timers, conn, signal, env, auth, dispatched, clock, messages,
                 mapData, published>>

\* `return talks` / `return ngos`: the fetcher completes and its caller
\* answers.
Return(t) ==
  /\ Alive
  /\ tasks[t].pc = "return"
  /\ tasks' = [tasks EXCEPT ![t] = Returned(tasks[t], coll[tasks[t].ty])]
  /\ UNCHANGED <<phase, indexes, timers, conn, signal, populated, env, auth, dispatched,
                 coll, clock, messages, mapData, published>>

\* ------------------------------------------------------------- the chat route
\* A falsy JavaScript value: an absent field or the empty string.
Falsy(obj, f) == Get(obj, f) \in {Undefined, ""}

\* The bodies a client posts to /api/send-message.
MessageBodies ==
  {[f \in fs |-> CASE f = "text" -> "hi" [] f = "user" -> "alice" [] OTHER -> "a.png"] :
     fs \in SUBSET {"text", "user", "photoURL"}}
  \cup {[text |-> "", user |-> "alice"]}

\* if (!text || !user)
\* Variant: a validation that looks at text only.
MissingTextOnly(body) == Falsy(body, "text")
MissingMessageFields(body) == Falsy(body, "text") \/ Falsy(body, "user")

\* const message = {text, user, photoURL: photoURL || '', createdAt: new Date()}
Message(body, now) ==
  [text |-> Get(body, "text"), user |-> Get(body, "user"),
   photoURL |-> IF Falsy(body, "photoURL") THEN "" ELSE body.photoURL,
   createdAt |-> now]

\* insertOne(doc): the store generates the _id (here the position in the
\* collection) and holds the document with it.
InsertedId(docs) == Len(docs) + 1
\* Variant: a store that keeps the last document only.
InsertOneOver(docs, doc) ==
  <<[f \in DOMAIN doc \cup {"_id"} |-> IF f = "_id" THEN 1 ELSE doc[f]]>>
InsertOne(docs, doc) ==
  Append(docs, [f \in DOMAIN doc \cup {"_id"} |->
                  IF f = "_id" THEN InsertedId(docs) ELSE doc[f]])

\* const savedMessage = {...message, _id: result.insertedId}
\* Variant: the message answered without its _id.
SavedMessageNoId(message, insertedId) == message
SavedMessage(message, insertedId) ==
  [f \in DOMAIN message \cup {"_id"} |-> IF f = "_id" THEN insertedId ELSE message[f]]

\* app.post('/api/send-message') up to the 400 or to its insertOne.
PostSendMessage(t, body) ==
  /\ Free(t)
  /\ IF MissingMessageFields(body)
     THEN /\ tasks' = [tasks EXCEPT ![t] =
               [NewTask("sendMessage", "messages", body, "done", <<>>) EXCEPT
                  !.res = [status |-> 400,
                           json |-> [error |-> "Missing required fields",
                                     required |-> <<"text", "user">>,
                                     received |-> body]]]]
          /\ UNCHANGED clock
     ELSE /\ tasks' = [tasks EXCEPT ![t] =
               [NewTask("sendMessage", "messages", body, "insertOne", <<"insertOne">>)
                  EXCEPT !.fresh = <<Message(body, clock["messages"])>>]]
          /\ clock' = [clock EXCEPT !["messages"] = @ + 1]
  /\ UNCHANGED <<phase, indexes, timers, conn, signal, populated, env, auth, dispatched,
                 coll, messages, mapData, published>>

\* insertOne(message) settles: the message is stored, pusher.trigger is
\* called with the stored message and 201 is sent without waiting for the
\* publish.  A rejected insertOne is caught: 500, nothing published.
SendMessageInsertSettles(t) ==
  /\ Alive
  /\ tasks[t].pc = "insertOne"
  /\ tasks[t].kind = "sendMessage"
  /\ LET task == tasks[t]
         savedMessage == SavedMessage(task.fresh[1], InsertedId(messages))
     IN
       \/ /\ tasks' = [tasks EXCEPT ![t] = Catch(task, "storage")]
          /\ UNCHANGED <<messages, published>>
       \/ /\ messages' = InsertOne(messages, task.fresh[1])
          /\ published' = Append(published,
               [channel |-> "chat", event |-> "message", data |-> savedMessage,
                outcome |-> "pending"])
          /\ tasks' = [tasks EXCEPT ![t] =
               [task EXCEPT !.pc = "done",
                            !.calls = Append(@, "pusher.trigger"),
                            !.res = [status |-> 201, json |-> savedMessage]]]
  /\ UNCHANGED <<phase, indexes, timers, conn, signal, populated, env, auth, dispatched,
                 coll, clock, mapData>>

\* The publish settles later: a failure is only logged by the callback.
PusherSettles(i) ==
  /\ Alive
  /\ i \in DOMAIN published
  /\ published[i].outcome = "pending"
  /\ \E outcome \in {"delivered", "failed"} :
       published' = [published EXCEPT ![i].outcome = outcome]
  /\ UNCHANGED <<phase, indexes, timers, conn, signal, populated, env, auth, dispatched,
                 coll, clock, messages, mapData, tasks>>

\* -------------------------------------------------------------- the map route
\* The bodies a client posts to /api/map.
MapBodies ==
  {[f \in fs |-> CASE f = "location" -> "point" [] f = "interest" -> "water"
                   [] OTHER -> "health"] :
     fs \in SUBSET {"location", "interest", "category"}}
  \cup {[location |-> "point", interest |-> "water", createdAt |-> 0],
        [location |-> "point", interest |-> "water", category |-> "",
         createdAt |-> 0]}

\* if (!location || !interest)
MissingMapFields(body) == Falsy(body, "location") \/ Falsy(body, "interest")

\* {location, interest, category, userId, createdAt: new Date()} with
\* category = 'general' when the body has none.
\* Variant: a handler that stores the body's createdAt when it has one.
CheckInFromBody(body, now) ==
  [location |-> Get(body, "location"), interest |-> Get(body, "interest"),
   category |-> IF Has(body, "category") THEN body.category ELSE "general",
   userId |-> Get(body, "userId"),
   createdAt |-> IF Has(body, "createdAt") THEN body.createdAt ELSE now]
CheckIn(body, now) ==
  [location |-> Get(body, "location"), interest |-> Get(body, "interest"),
   category |-> IF Has(body, "category") THEN body.category ELSE "general",
   userId |-> Get(body, "userId"),
   createdAt |-> now]

\* app.post('/api/map') up to the 400 or to its insertOne.
PostMap(t, body) ==
  /\ Free(t)
  /\ IF MissingMapFields(body)
     THEN /\ tasks' = [tasks EXCEPT ![t] =
               [NewTask("mapPost", "mapData", body, "done", <<>>) EXCEPT
                  !.res = [status |-> 400,
                           json |-> [error |-> "Missing required fields"]]]]
          /\ UNCHANGED clock
     ELSE /\ tasks' = [tasks EXCEPT ![t] =
               [NewTask("mapPost", "mapData", body, "insertOne", <<"insertOne">>)
                  EXCEPT !.fresh = <<CheckIn(body, clock["mapData"])>>]]
          /\ clock' = [clock EXCEPT !["mapData"] = @ + 1]
  /\ UNCHANGED <<phase, indexes, timers, conn, signal, populated, env, auth, dispatched,
                 coll, messages, mapData, published>>

\* insertOne(checkIn) settles.  The response is result.ops[0]: the stored
\* document with the 3.x driver; later drivers return no `ops`, reading
\* ops[0] throws and the catch block answers 500 although the document is
\* stored.  A rejected insertOne is caught: 500, nothing stored.
MapInsertSettles(t) ==
  /\ Alive
  /\ tasks[t].pc = "insertOne"
  /\ tasks[t].kind = "mapPost"
  /\ LET task == tasks[t]
         stored == InsertOne(mapData, task.fresh[1])[InsertedId(mapData)]
     IN
       \/ /\ tasks' = [tasks EXCEPT ![t] = Catch(task, "storage")]
          /\ UNCHANGED mapData
       \/ /\ mapData' = InsertOne(mapData, task.fresh[1])
          /\ \E hasOps \in BOOLEAN :
               tasks' = [tasks EXCEPT ![t] =
                 IF hasOps
                 THEN [task EXCEPT !.pc = "done",
                                   !.res = [status |-> 201, json |-> stored]]
                 ELSE Catch(task, "ops")]
  /\ UNCHANGED <<phase, indexes, timers, conn, signal, populated, env, auth, dispatched,
                 coll, clock, messages, published>>

\* ------------------------------------------------------ the read-only routes
\* The query strings of GET /api/map (category, limit) and GET /api/messages
\* (limit).
MapQueries == {NoParams, [category |-> "health"], [limit |-> 1]}
MessagesQueries == {NoParams, [limit |-> 1]}

\* find(category ? {category} : {}).limit(parseInt(limit)).sort({createdAt: -1})
\* on mapData, limit = 100 by default.
FindMapData(docs, req) ==
  LET Matches(d) == Has(req, "category") => d.category = req.category
      limit == IF Has(req, "limit") THEN req.limit ELSE DefaultMapLimit
  IN CursorLimit(SortCreatedAtDesc(SelectSeq(docs, Matches)), limit)
\* find().limit(parseInt(limit)).sort({createdAt: -1}) on messages, limit = 50
\* by default.
FindMessages(docs, req) ==
  LET limit == IF Has(req, "limit") THEN req.limit ELSE DefaultMessagesLimit
  IN CursorLimit(SortCreatedAtDesc(docs), limit)

\* app.get('/api/map') and app.get('/api/messages') up to their await.
GetMap(t, req) ==
  /\ Free(t)
  /\ tasks' = [tasks EXCEPT ![t] = NewTask("getMap", "mapData", req, "find", <<"find">>)]
  /\ UNCHANGED <<phase, indexes, timers, conn, signal, populated, env, auth, dispatched,
                 coll, clock, messages, mapData, published>>
GetMessages(t, req) ==
  /\ Free(t)
  /\ tasks' = [tasks EXCEPT ![t] =
       NewTask("getMessages", "messages", req, "find", <<"find">>)]
  /\ UNCHANGED <<phase, indexes, timers, conn, signal, populated, env, auth, dispatched,
                 coll, clock, messages, mapData, published>>

\* toArray() settles: res.json(data), or the catch block's 500.
ListSettles(t) ==
  /\ Alive
  /\ tasks[t].pc = "find"
  /\ tasks[t].kind \in {"getMap", "getMessages"}
  /\ \E ok \in BOOLEAN :
       LET task == tasks[t]
           docs == IF task.kind = "getMap"
                   THEN FindMapData(mapData, task.req)
                   ELSE FindMessages(messages, task.req)
       IN tasks' = [tasks EXCEPT ![t] =
            IF ok
            THEN [task EXCEPT !.pc = "done", !.res = [status |-> 200, json |-> docs]]
            ELSE Catch(task, "storage")]
  /\ UNCHANGED <<phase, indexes, timers, conn, signal, populated, env, auth, dispatched,
                 coll, clock, messages, mapData, published>>

\* app.get('/api/health'): answers at once, reads only whether db is set.
GetHealth(t) ==
  /\ Free(t)
  /\ tasks' = [tasks EXCEPT ![t] =
       [NewTask("health", "none", NoParams, "done", <<>>) EXCEPT
          !.res = [status |-> 200,
                   json |-> [status |-> "healthy",
                             dbStatus |-> IF conn = "none" THEN "disconnected"
                                          ELSE "connected"]]]]
  /\ UNCHANGED <<phase, indexes, timers, conn, signal, populated, env, auth, dispatched,
                 coll, clock, messages, mapData, published>>

\* ------------------------------------------------------ the client's store
\* dispatch(action): the auth reducer computes the next slice state.
Dispatch(action) ==
  /\ auth' = Reduce(auth, action)
  /\ dispatched' = action
  /\ UNCHANGED <<phase, indexes, timers, conn, signal, populated, env, coll, clock,
                 messages, mapData, published, tasks>>

\* --------------------------------------------------------------- shutdown
Signals == {"SIGTERM", "SIGINT"}

\* process.on('SIGTERM' / 'SIGINT', async () => {...}) up to its await:
\* `if (db) await db.client.close()`; with no db yet, process.exit(0) at
\* once.  The HTTP server and the timers are left as they are.
Signal(sig) ==
  /\ Alive
  /\ signal = "none"
  /\ signal' = sig
  /\ phase' = IF conn = "none" THEN "exited" ELSE phase
  /\ UNCHANGED <<indexes, timers, conn, populated, env, auth, dispatched, coll, clock,
                 messages, mapData, published, tasks>>

\* client.close() settles: process.exit(0).
CloseSettles ==
  /\ Alive
  /\ signal # "none"
  /\ conn = "open"
  /\ conn' = "closed"
  /\ phase' = "exited"
  /\ UNCHANGED <<indexes, timers, signal, populated, env, auth, dispatched, coll, clock,
                 messages, mapData, published, tasks>>

\* ------------------------------------------------------------------- Next
\* startServer, and the fetchers it and everything else calls.
Startup ==
  \/ ConnectToMongoDB
  \/ Listen
Fetchers ==
  \/ \E t \in TaskIds : AxiosGetSettles(t)
  \/ \E t \in TaskIds : DeleteManySettles(t)
  \/ \E t \in TaskIds : InsertManySettles(t)
  \/ \E t \in TaskIds : Return(t)

\* The routes and the timer of the cached collections in `on`.
CachedRoutes(on) ==
  \/ \E t \in ReqIds, ty \in on : \E req \in Queries(ty) : GetCached(t, ty, req)
  \/ \E t \in ReqIds, ty \in on : \E h \in RefreshHeaders : PostRefresh(t, ty, h)
  \/ \E ty \in on : TimerFires(ty)
  \/ \E t \in ReqIds : FindSettles(t)

\* The chat and map routes.
PostRoutes ==
  \/ \E t \in ReqIds : \E body \in MessageBodies : PostSendMessage(t, body)
  \/ \E t \in ReqIds : \E body \in MapBodies : PostMap(t, body)
  \/ \E t \in ReqIds : SendMessageInsertSettles(t)
  \/ \E t \in ReqIds : MapInsertSettles(t)
  \/ \E i \in 1 .. Len(published) : PusherSettles(i)

\* The signal handlers.
Shutdown ==
  \/ \E sig \in Signals : Signal(sig)
  \/ CloseSettles

\* A request of the talks, chat and map routes, and the talks timer.
SampleMessage == [text |-> "hi", user |-> "alice"]
SampleCheckIn == [location |-> "point", interest |-> "water"]
SampleRoutes ==
  \/ \E t \in ReqIds : GetCached(t, "tedTalks", NoParams)
  \/ \E t \in ReqIds : FindSettles(t)
  \/ TimerFires("tedTalks")
  \/ \E t \in ReqIds : PostSendMessage(t, SampleMessage)
  \/ \E t \in ReqIds : PostMap(t, SampleCheckIn)
  \/ \E t \in ReqIds : SendMessageInsertSettles(t)
  \/ \E t \in ReqIds : MapInsertSettles(t)
  \/ \E i \in 1 .. Len(published) : PusherSettles(i)

\* The routes that only read.
ReadRoutes ==
  \/ \E t \in ReqIds : \E req \in MapQueries : GetMap(t, req)
  \/ \E t \in ReqIds : \E req \in MessagesQueries : GetMessages(t, req)
  \/ \E t \in ReqIds : ListSettles(t)
  \/ \E t \in ReqIds : GetHealth(t)

\* Every operation that writes a collection, one request each, and the
\* routes that only read: both refresh routes, the chat and map routes.
WriteRoutes ==
  \/ \E t \in ReqIds, ty \in Types : PostRefresh(t, ty, NoParams)
  \/ \E t \in ReqIds : PostSendMessage(t, SampleMessage)
  \/ \E t \in ReqIds : PostMap(t, SampleCheckIn)
  \/ \E t \in ReqIds : SendMessageInsertSettles(t)
  \/ \E t \in ReqIds : MapInsertSettles(t)
  \/ \E i \in 1 .. Len(published) : PusherSettles(i)

Next ==
  Startup \/ Fetchers \/ CachedRoutes(Types) \/ PostRoutes \/ ReadRoutes \/ Shutdown
NextStore == Startup \/ Fetchers \/ WriteRoutes \/ ReadRoutes
NextLifecycle == Startup \/ Fetchers \/ SampleRoutes \/ Shutdown
NextTalks == Startup \/ Fetchers \/ CachedRoutes({"tedTalks"})
NextNgos == Startup \/ Fetchers \/ CachedRoutes({"ngos"})
NextPosts == Startup \/ Fetchers \/ PostRoutes

\* The whole program.
Spec == Init /\ [][Next]_vars
\* The program under the traffic of one group of routes: the talks routes and
\* the talks timer, the NGO routes and the NGO timer, the chat and map
\* routes.  The groups share no collection.
SpecTalks == Init /\ [][NextTalks]_vars
SpecNgos == Init /\ [][NextNgos]_vars
SpecPosts == Init /\ [][NextPosts]_vars
\* The process from start to exit: startup, requests that read the cache,
\* refresh it and write to messages and mapData, the talks timer and the
\* signal handlers.
SpecLifecycle == Init /\ [][NextLifecycle]_vars
\* The auth slice under every sequence of its five actions.
NextAuth ==
  \/ Dispatch([type |-> "loginStart"])
  \/ \E user \in UserPayloads : Dispatch([type |-> "loginSuccess", payload |-> user])
  \/ \E e \in ErrorPayloads : Dispatch([type |-> "loginFailure", payload |-> e])
  \/ Dispatch([type |-> "logout"])
  \/ \E user \in UserPayloads \cup {Null} : Dispatch([type |-> "setUser", payload |-> user])
SpecAuth == Init /\ [][NextAuth]_vars

\* The four collections under every operation that reads or writes them.
SpecStore == Init /\ [][NextStore]_vars

\* The talks routes when no two invocations work on one collection at the
\* same time: every fetcher call has returned or thrown before the next one
\* is made.
InFlight(t) == tasks[t].pc \notin {"idle", "done", "settled"}
Serial ==
  \A t, u \in TaskIds :
    (t # u /\ InFlight(t) /\ InFlight(u)) => tasks[t].ty # tasks[u].ty
SerialRoutes(on) ==
  \/ \E t \in ReqIds, ty \in on : \E req \in Queries(ty) :
       GetCached(t, ty, req) /\ Serial'
  \/ \E t \in ReqIds, ty \in on : \E h \in RefreshHeaders :
       PostRefresh(t, ty, h) /\ Serial'
  \/ \E ty \in on : TimerFires(ty) /\ Serial'
  \/ \E t \in ReqIds : FindSettles(t)
NextTalksSerial == Startup \/ Fetchers \/ SerialRoutes({"tedTalks"})
SpecTalksSerial == Init /\ [][NextTalksSerial]_vars

\* One request of every route beside the talks timer, where every awaited
\* call of a request in flight eventually resolves or rejects.
AwaitSettles(t) ==
  \/ FindSettles(t)
  \/ ListSettles(t)
  \/ AxiosGetSettles(t)
  \/ DeleteManySettles(t)
  \/ InsertManySettles(t)
  \/ Return(t)
  \/ SendMessageInsertSettles(t)
  \/ MapInsertSettles(t)
NextRequests ==
  \/ Startup
  \/ Fetchers
  \/ WriteRoutes
  \/ ReadRoutes
  \/ \E t \in ReqIds : GetCached(t, "tedTalks", NoParams)
  \/ \E t \in ReqIds : FindSettles(t)
  \/ TimerFires("tedTalks")
SpecRequests ==
  Init /\ [][NextRequests]_vars /\ \A t \in ReqIds : WF_vars(AwaitSettles(t))

\* startServer runs on: every awaited call of the two startup refreshes
\* settles, and the continuation of `await Promise.allSettled` runs once it
\* has settled.
SpecStartServer ==
  /\ Init
  /\ [][NextStore]_vars
  /\ \A t \in BackgroundIds : WF_vars(AwaitSettles(t))
  /\ WF_vars(Listen)

\* ----------------------------------------------------------------- claims
Count(calls, c) == Cardinality({i \in DOMAIN calls : calls[i] = c})
\* The content of a list of documents without their createdAt.
Ids(docs) == [i \in DOMAIN docs |-> docs[i].id]
\* An invocation whose fetcher call has returned its array.
FetcherReturned(t) ==
  /\ tasks[t].pc = "done"
  /\ tasks[t].kind \in {"serve", "refresh", "timer", "boot"}
  /\ tasks[t].err = "none"
  /\ Count(tasks[t].calls, "insertMany") = 1
\* A GET request on collection ty whose find returned nothing, so that it
\* called the fetcher.
ServeRefreshed(t, ty) ==
  /\ tasks[t].pc \notin {"idle", "settled"}
  /\ tasks[t].kind = "serve"
  /\ tasks[t].ty = ty
  /\ Len(tasks[t].calls) >= 2

\* C1: when a fetcher call (fetchTEDTalks, refreshNGOData; from a refresh
\* route, a timer, a GET on an empty result or startup) returns, the target
\* collection holds exactly the records of that call's array, whatever else
\* is in flight.
C1_RefreshLeavesExactlyFetched ==
  \A t \in TaskIds : FetcherReturned(t) => tasks[t].left = tasks[t].fresh

\* C2: in every state each cached collection is empty or is the complete
\* batch of one fetcher call (one createdAt stamp, the whole upstream list).
C2_OneSnapshot ==
  \A ty \in Types :
    \/ coll[ty] = <<>>
    \/ \E ids \in UpstreamResults, now \in 1 .. clock[ty] :
         coll[ty] = Normalise(ids, now)

\* C3 as stated: a GET /api/content whose find returns nothing makes exactly
\* one axios.get, one deleteMany and one insertMany, and its response holds
\* at most `limit` records, all from the fetched array.
C3_ExactlyOneCycle ==
  \A t \in ReqIds :
    (ServeRefreshed(t, "tedTalks") /\ tasks[t].pc = "done") =>
      /\ Count(tasks[t].calls, "axios.get") = 1
      /\ Count(tasks[t].calls, "deleteMany") = 1
      /\ Count(tasks[t].calls, "insertMany") = 1
      /\ tasks[t].res.status = 200 =>
           /\ Len(tasks[t].res.json) <= LimitOf(tasks[t].req, "tedTalks")
           /\ Range(tasks[t].res.json) \subseteq Range(tasks[t].fresh)

\* C3 amended: such a request makes exactly one axios.get and never a second
\* one; it makes at most one deleteMany and at most one insertMany, and
\* exactly one of each when it answers 200; a 200 response holds only records
\* of the fetched array: at most `limit` of them when limit >= 0, and all but
\* the last -limit of them when limit < 0.
C3_OneCycleNoRetry ==
  \A t \in ReqIds :
    ServeRefreshed(t, "tedTalks") =>
      /\ Count(tasks[t].calls, "axios.get") = 1
      /\ Count(tasks[t].calls, "deleteMany") <= 1
      /\ Count(tasks[t].calls, "insertMany") <= 1
      /\ tasks[t].res.status = 200 =>
           /\ Count(tasks[t].calls, "deleteMany") = 1
           /\ Count(tasks[t].calls, "insertMany") = 1
           /\ Range(tasks[t].res.json) \subseteq Range(tasks[t].fresh)
           /\ LimitOf(tasks[t].req, "tedTalks") >= 0 =>
                Len(tasks[t].res.json) <= LimitOf(tasks[t].req, "tedTalks")
           /\ LimitOf(tasks[t].req, "tedTalks") < 0 =>
                Len(tasks[t].res.json) =
                  Max(0, Len(tasks[t].fresh) + LimitOf(tasks[t].req, "tedTalks"))
\* A request answered with the first `limit` of more fetched records.
C3_Witness ==
  \E t \in ReqIds :
    /\ ServeRefreshed(t, "tedTalks")
    /\ tasks[t].res.status = 200
    /\ Has(tasks[t].req, "limit")
    /\ Len(tasks[t].res.json) = tasks[t].req.limit
    /\ Len(tasks[t].fresh) > tasks[t].req.limit

\* C4: when find() of GET /api/content settles on a non-empty tedTalks
\* collection, the handler does not go on to the fetcher, whatever `search`.
C4_NoFetchOnNonEmptyCache ==
  [][\A t \in ReqIds :
       (/\ tasks[t].pc = "find"
        /\ tasks[t].ty = "tedTalks"
        /\ coll["tedTalks"] # <<>>) => tasks'[t].pc # "axios.get"]_vars

\* C5: a GET /api/action-hub?limit=L (L >= 0, no filter) that reads an empty
\* collection and whose fetcher gets n records answers 200 with the first
\* min(L, n) of them in fetched order, and the collection then holds all n.
C5_FirstLimitOfFetched ==
  [][\A t \in ReqIds :
       (/\ tasks[t].pc \in {"deleteMany", "insertMany", "return"}
        /\ tasks[t].kind = "serve"
        /\ tasks[t].ty = "ngos"
        /\ DOMAIN tasks[t].req \subseteq {"limit"}
        /\ LimitOf(tasks[t].req, "ngos") >= 0
        /\ tasks'[t].pc = "done"
        /\ tasks'[t].err # "storage") =>
         /\ tasks'[t].res.status = 200
         /\ tasks'[t].res.json =
              Take(tasks[t].fresh,
                   Min(LimitOf(tasks[t].req, "ngos"), Len(tasks[t].fresh)))
         /\ coll'["ngos"] = tasks[t].fresh]_vars

\* C6: two fetchTEDTalks calls one right after the other (consecutive
\* createdAt stamps, the first returned before the second began) that get the
\* same upstream list leave the collection with the same number of documents
\* and the same content, createdAt aside.
C6_RefreshTwiceSameContent ==
  \A a, b \in TaskIds :
    (/\ a # b
     /\ FetcherReturned(a) /\ tasks[a].ty = "tedTalks"
     /\ FetcherReturned(b) /\ tasks[b].ty = "tedTalks"
     /\ tasks[b].fresh[1].createdAt = tasks[a].fresh[1].createdAt + 1
     /\ Ids(tasks[a].fresh) = Ids(tasks[b].fresh)) =>
      /\ Len(tasks[b].left) = Len(tasks[a].left)
      /\ Ids(tasks[b].left) = Ids(tasks[a].left)
\* Two such calls, the collection not empty after them.
C6_Witness ==
  \E a, b \in TaskIds :
    /\ a # b
    /\ FetcherReturned(a) /\ tasks[a].ty = "tedTalks"
    /\ FetcherReturned(b) /\ tasks[b].ty = "tedTalks"
    /\ tasks[b].fresh[1].createdAt = tasks[a].fresh[1].createdAt + 1
    /\ Ids(tasks[a].fresh) = Ids(tasks[b].fresh)
    /\ Len(tasks[b].left) = MaxFetched

\* C7: in the step in which a fetcher's axios.get fails, no collection
\* changes; the invocation is over, having made one axios.get and no
\* deleteMany or insertMany; a request is answered with an error status and
\* an `error` body.
C7_FetchFailureLeavesCache ==
  [][\A t \in TaskIds :
       (tasks[t].pc = "axios.get" /\ tasks'[t].err = "upstream") =>
         /\ coll' = coll
         /\ tasks'[t].pc = "done"
         /\ Count(tasks'[t].calls, "axios.get") = 1
         /\ Count(tasks'[t].calls, "deleteMany") = 0
         /\ Count(tasks'[t].calls, "insertMany") = 0
         /\ IsRequest(tasks'[t]) =>
              /\ tasks'[t].res.status >= 400
              /\ Has(tasks'[t].res.json, "error")]_vars
\* A request answered 500 after a failed fetch, the cached talks still there.
C7_Witness ==
  \E t \in ReqIds :
    /\ tasks[t].pc = "done"
    /\ tasks[t].err = "upstream"
    /\ tasks[t].res.status = 500
    /\ coll["tedTalks"] # <<>>

\* C8: the step in which a POST /api/send-message without text or user, or a
\* POST /api/map without location or interest, arrives answers 400, makes no
\* store or pusher call and changes no collection and no publish.
Lacks(body, fields) == \E f \in fields : ~Has(body, f)
C8_InvalidPostHasNoEffect ==
  [][\A t \in ReqIds :
       (/\ tasks[t].pc \in {"idle", "done"}
        /\ tasks'[t] # tasks[t]
        /\ \/ /\ tasks'[t].kind = "sendMessage"
              /\ Lacks(tasks'[t].req, {"text", "user"})
           \/ /\ tasks'[t].kind = "mapPost"
              /\ Lacks(tasks'[t].req, {"location", "interest"})) =>
         /\ tasks'[t].pc = "done"
         /\ tasks'[t].res.status = 400
         /\ tasks'[t].calls = <<>>
         /\ UNCHANGED <<coll, messages, mapData, published>>]_vars
\* A message without user answered 400 after an earlier message was stored.
C8_Witness ==
  \E t \in ReqIds :
    /\ tasks[t].pc = "done"
    /\ tasks[t].kind = "sendMessage"
    /\ ~Has(tasks[t].req, "user")
    /\ tasks[t].res.status = 400
    /\ Len(messages) = 1
    /\ Len(published) = 1

\* C9: in production, a POST /api/refresh/... whose x-api-key header is
\* missing or is not the admin secret (set or unset) is answered 403 and
\* calls nothing.
C9_RefreshNeedsAdminKey ==
  \A t \in ReqIds :
    (/\ tasks[t].pc # "idle"
     /\ tasks[t].kind = "refresh"
     /\ env.NODE_ENV = "production"
     /\ \/ ~Has(tasks[t].req, "x_api_key")
        \/ ~Has(env, "ADMIN_API_KEY")
        \/ tasks[t].req.x_api_key # env.ADMIN_API_KEY) =>
      /\ tasks[t].pc = "done"
      /\ tasks[t].res.status = 403
      /\ tasks[t].calls = <<>>

\* C10: a POST /api/send-message with text and user whose insertOne succeeds
\* is answered 201 with the stored message; pusher.trigger was called on
\* channel 'chat' with that message; and this is so whatever became of the
\* publish (pending, delivered, failed).
C10_PublishDoesNotChangeResponse ==
  \A t \in ReqIds :
    (/\ tasks[t].pc = "done"
     /\ tasks[t].kind = "sendMessage"
     /\ ~Lacks(tasks[t].req, {"text", "user"})
     /\ tasks[t].req.text # ""
     /\ tasks[t].err # "storage") =>
      /\ tasks[t].res.status = 201
      /\ \E i \in DOMAIN messages :
           /\ messages[i] = tasks[t].res.json
           /\ published[i].channel = "chat"
           /\ published[i].data = messages[i]
           /\ published[i].outcome \in {"pending", "delivered", "failed"}
\* A message answered 201 whose publish failed.
C10_Witness ==
  \E t \in ReqIds :
    /\ tasks[t].pc = "done"
    /\ tasks[t].kind = "sendMessage"
    /\ tasks[t].res.status = 201
    /\ \E i \in DOMAIN messages :
         /\ messages[i] = tasks[t].res.json
         /\ published[i].outcome = "failed"

\* C11: the check-in a POST /api/map with location and interest stores has
\* the server's clock reading of that request as createdAt, whatever
\* createdAt the body carries, and the body's category, or "general" when the
\* body has none.
C11_CheckInStampedByServer ==
  [][\A t \in ReqIds :
       (/\ tasks[t].pc = "insertOne"
        /\ tasks[t].kind = "mapPost"
        /\ mapData' # mapData) =>
         LET stored == mapData'[Len(mapData')]
             body == tasks[t].req
         IN /\ Len(mapData') = Len(mapData) + 1
            /\ stored.createdAt = clock["mapData"] - 1
            /\ stored.category =
                 IF Has(body, "category") THEN body.category ELSE "general"
            /\ stored.location = body.location
            /\ stored.interest = body.interest]_vars
\* A check-in sent with a createdAt and no category, stored as "general" with
\* another createdAt.
C11_Witness ==
  \E t \in ReqIds :
    /\ tasks[t].pc = "done"
    /\ tasks[t].kind = "mapPost"
    /\ Has(tasks[t].req, "createdAt")
    /\ ~Has(tasks[t].req, "category")
    /\ Len(mapData) >= 1
    /\ mapData[Len(mapData)].category = "general"
    /\ mapData[Len(mapData)].createdAt # tasks[t].req.createdAt

\* C12: every step (a request, a refresh, a timer callback, a signal handler)
\* leaves each document of messages and mapData in its place and unchanged;
\* the collections only grow at their end.
IsPrefix(a, b) == Len(a) <= Len(b) /\ \A i \in DOMAIN a : b[i] = a[i]
C12_AppendOnly ==
  [][IsPrefix(messages, messages') /\ IsPrefix(mapData, mapData')]_vars
\* Two messages and a check-in still stored when the process has shut down.
C12_Witness ==
  /\ Len(messages) = 2
  /\ Len(mapData) = 1
  /\ signal # "none"
  /\ conn = "closed"
  /\ phase = "exited"

\* C13: every 400, 403 and 500 response body has an `error` field, and in
\* production it has none of stack, received, message, details.
Diagnostics == {"stack", "received", "message", "details"}
C13_ErrorBodies ==
  \A t \in ReqIds :
    (tasks[t].pc = "done" /\ tasks[t].res.status >= 400) =>
      /\ Has(tasks[t].res.json, "error")
      /\ env.NODE_ENV = "production" =>
           DOMAIN tasks[t].res.json \cap Diagnostics = {}

\* C14: when connectToMongoDB has ended without all four indexes created,
\* the process has exited and no invocation (request, startup call, timer
\* callback) has ever been started.
AllIndexes == {IndexNames[i] : i \in DOMAIN IndexNames}
C14_NoServiceWithoutIndexes ==
  (phase # "connecting" /\ indexes # AllIndexes) =>
    /\ phase = "exited"
    /\ \A t \in TaskIds : tasks[t].pc = "idle"
    /\ \A ty \in Types : timers[ty] = 0
\* The process exited at the fourth createIndex.
C14_Witness ==
  /\ phase = "exited"
  /\ signal = "none"
  /\ conn = "open"
  /\ Cardinality(indexes) = Len(IndexNames) - 1

\* C15: once a signal has been received no new request is taken on, and the
\* step in which the handler exits the process is one in which the client's
\* close has completed.
C15_StopsAcceptingThenCloses ==
  [][/\ signal # "none" =>
          \A t \in ReqIds :
            tasks[t].pc \in {"idle", "done"} => tasks'[t] = tasks[t]
     /\ (/\ phase # "exited" /\ phase' = "exited"
         /\ signal' # "none"
         /\ conn # "none") => conn' = "closed"]_vars

\* C16: when a timer's or startup's fetcher call and a request's fetcher call
\* on the same collection have both returned and nothing else works on the
\* collection, the collection holds exactly the records of one of the two
\* (the one whose insertMany ran last).
C16_LastWriteWins ==
  \A a \in BackgroundIds, b \in ReqIds :
    (/\ FetcherReturned(a)
     /\ FetcherReturned(b)
     /\ tasks[a].ty = tasks[b].ty) =>
      coll[tasks[a].ty] \in {tasks[a].fresh, tasks[b].fresh}

\* C17: a GET with search or type whose find returns nothing on a non-empty
\* collection calls the fetcher; and a GET with search or type (limit >= 0)
\* whose fetcher got its records is answered 200 with the first `limit` of
\* them, unfiltered.
Filtered(req) == Has(req, "search") \/ Has(req, "type")
C17_FilterMissLikeEmptyCache ==
  [][\A t \in ReqIds :
       /\ (/\ tasks[t].pc = "find"
           /\ Filtered(tasks[t].req)
           /\ coll[tasks[t].ty] # <<>>
           /\ Find(coll[tasks[t].ty], tasks[t].req, tasks[t].ty) = <<>>
           /\ tasks'[t].pc # "find"
           /\ tasks'[t].err # "storage") => tasks'[t].pc = "axios.get"
       /\ (/\ tasks[t].pc \in {"deleteMany", "insertMany", "return"}
           /\ tasks[t].kind = "serve"
           /\ Filtered(tasks[t].req)
           /\ LimitOf(tasks[t].req, tasks[t].ty) >= 0
           /\ tasks'[t].pc = "done"
           /\ tasks'[t].err # "storage") =>
            /\ tasks'[t].res.status = 200
            /\ tasks'[t].res.json =
                 Take(tasks[t].fresh,
                      Min(LimitOf(tasks[t].req, tasks[t].ty), Len(tasks[t].fresh)))]_vars

\* C18: when a GET's find returns nothing from a collection that an
\* insertMany has populated before, another invocation on that collection is
\* between its deleteMany and its insertMany.
C18_EmptyOnlyInsideRefresh ==
  [][\A t \in ReqIds :
       (/\ tasks[t].pc = "find"
        /\ tasks'[t].pc = "axios.get"
        /\ coll[tasks[t].ty] = <<>>
        /\ populated[tasks[t].ty]) =>
         \E u \in TaskIds \ {t} :
           /\ tasks[u].pc = "insertMany"
           /\ tasks[u].ty = tasks[t].ty]_vars

\* C19: setInterval is called for both fetchers in one step, once, when both
\* startup calls have settled; and a timer callback starts only with its
\* timer registered once and no startup call in flight.
TimerStarts(ty) ==
  /\ tasks[Background(ty)].pc # "axios.get"
  /\ tasks'[Background(ty)].pc = "axios.get"
  /\ tasks'[Background(ty)].kind = "timer"
C19_TimersOnceAfterStartup ==
  [][/\ timers' # timers =>
          /\ \A ty \in Types : timers[ty] = 0 /\ timers'[ty] = 1
          /\ \A t \in BackgroundIds :
               tasks[t].kind = "boot" /\ tasks[t].pc = "done"
     /\ \A ty \in Types :
          TimerStarts(ty) =>
            /\ timers[ty] = 1
            /\ phase = "listening"
            /\ \A t \in BackgroundIds :
                 tasks[t].pc = "settled" \/ tasks[t].kind = "timer"]_vars
\* A timer callback at work, both timers registered, after a startup call
\* that failed.
C19_Witness ==
  /\ \A ty \in Types : timers[ty] = 1
  /\ tasks[Background("tedTalks")].pc = "deleteMany"
  /\ tasks[Background("tedTalks")].kind = "timer"
  /\ coll["tedTalks"] = <<>>

\* C20: the step in which a timer callback fails leaves the process running
\* and its timers registered.
C20_TimerFailureKeepsSchedule ==
  [][\A t \in BackgroundIds :
       (/\ tasks[t].pc \notin {"done", "settled", "idle"}
        /\ tasks[t].kind = "timer"
        /\ tasks'[t].pc = "done"
        /\ tasks'[t].err # "none") =>
         /\ phase' = "listening"
         /\ timers' = timers]_vars

\* The four collections by name, and the collections the claimed frame lets
\* an operation write: a refresh (startup call, timer callback, refresh
\* route, cache miss) its own collection, send-message only messages, the map
\* post only mapData, the reading routes none.
StoreNames == {"tedTalks", "ngos", "messages", "mapData"}
Store(c) ==
  CASE c = "messages" -> messages
    [] c = "mapData" -> mapData
    [] OTHER -> coll[c]
Writes(task) ==
  CASE task.kind \in {"boot", "timer", "refresh", "serve"} -> {task.ty}
    [] task.kind = "sendMessage" -> {"messages"}
    [] task.kind = "mapPost" -> {"mapData"}
    [] OTHER -> {}

\* C21: every step that changes a collection is a step of an operation that
\* owns that collection: a talks refresh changes only tedTalks, an NGO
\* refresh only ngos, POST /api/send-message only messages, POST /api/map
\* only mapData, and no step of GET /api/map, GET /api/messages or
\* GET /api/health changes any collection.
C21_WritesOnlyOwnCollection ==
  [][\A c \in StoreNames :
       Store(c)' # Store(c) =>
         \E t \in TaskIds :
           /\ InFlight(t)
           /\ tasks'[t] # tasks[t]
           /\ c \in Writes(tasks[t])
           /\ \A u \in TaskIds \ {t} : tasks'[u] = tasks[u]]_vars
\* An NGO refresh has rewritten ngos while tedTalks stayed empty and the chat
\* and map collections kept their one document each; a reading request is
\* answered.
C21_Witness ==
  /\ coll["ngos"] # <<>>
  /\ coll["tedTalks"] = <<>>
  /\ Len(messages) = 1
  /\ Len(mapData) = 1
  /\ \E t \in ReqIds :
       tasks[t].kind = "getMap" /\ tasks[t].pc = "done" /\ tasks[t].res.status = 200

\* A response is sent in a step: the request's record gets its status.
Answered(t) == tasks[t].pc = "done" /\ tasks[t].res.status # 0
\* C22: every request gets exactly one response and, when every awaited call
\* settles, gets it eventually: a request in flight has sent nothing, the
\* step that ends it sends one response, an answered request's response is
\* never replaced, and every request in flight leads to an answered one.
C22_ExactlyOneResponse ==
  /\ [][\A t \in ReqIds :
          /\ InFlight(t) => tasks[t].res = NoRes
          /\ (InFlight(t) /\ ~InFlight(t)') => Answered(t)'
          /\ (Answered(t) /\ tasks'[t] # tasks[t]) =>
               tasks'[t].calls \in {<<>>, <<"find">>, <<"axios.get">>, <<"insertOne">>}]_vars
  /\ \A t \in ReqIds : InFlight(t) ~> Answered(t)

\* C23: once the connection is open and the four indexes exist, the server
\* comes to listen with both refresh timers registered, whatever the outcome
\* of the two startup refreshes.
C23_StartsDespiteFailedRefresh ==
  (phase = "loading" /\ conn = "open" /\ indexes = AllIndexes)
    ~> (phase = "listening" /\ \A ty \in Types : timers[ty] = 1)
\* Listening with both timers and no request made yet, after a startup in
\* which the NGO refresh filled its collection and the talks refresh failed.
C23_Witness ==
  /\ phase = "listening"
  /\ \A ty \in Types : timers[ty] = 1
  /\ \A t \in ReqIds : tasks[t] = Idle
  /\ populated["ngos"] /\ coll["ngos"] # <<>>
  /\ ~populated["tedTalks"] /\ coll["tedTalks"] = <<>>

\* C24: in the auth slice loading = true implies error = null after every
\* action; logout always yields user = null, loading = false, error = null;
\* setUser leaves loading and error as they were.
C24_AuthSlice ==
  [][/\ auth'.loading => auth'.error = Null
     /\ dispatched'.type = "logout" =>
          (auth'.user = Null /\ ~auth'.loading /\ auth'.error = Null)
     /\ dispatched'.type = "setUser" =>
          (auth'.loading = auth.loading /\ auth'.error = auth.error)]_vars
\* loginStart handled while the store holds a user object put there by
\* setUser: loading, no error.
C24_Witness ==
  /\ dispatched = [type |-> "loginStart"]
  /\ auth.loading
  /\ auth.error = Null
  /\ auth.user \in UserPayloads
====
